---- MODULE Spec2Model ----
(***************************************************************************)
(* Battery health prediction dashboard (src/app.py).                       *)
(*                                                                         *)
(* The script is re-executed top to bottom on every user interaction; the  *)
(* only state that survives a run is st.session_state (the history list)   *)
(* and the sidebar widget values.  One action per script block, in source  *)
(* order; `pc` is the position of the running script.                      *)
(*                                                                         *)
(* Units: voltage, current and temperature are in tenths (step=0.1), power *)
(* and scores in hundredths (round(.., 2)), raw model outputs in           *)
(* thousandths, the clock in seconds since midnight of 1970-01-01.         *)
(***************************************************************************)
EXTENDS Integers, Sequences, FiniteSets, TLC

\* ---------------------------------------------------------------- bounds
MaxHistory == 3

\* instants (seconds) at which the wall clock is observed
Clocks == {0, 60}

Voltages == {520, 481}
Currents == {20}
Temperatures == {300}
RawPredictions == {85000, 45004, 9996}

ClassifyBelow == 120
ClassifyHigh == 10120

None == "None"

VARIABLES
    pc,             \* position of the script run ("idle" between runs)
    session_state,  \* st.session_state: a mapping, key "history" once initialised
    v, i, t,        \* sidebar number_input values
    clicked,        \* value returned by st.sidebar.button in this run
    defined,        \* names bound in the script namespace: FPDF, model, scaler
    power,          \* round(v * i, 2)
    input_array,    \* np.array([[v, i, t, power]])
    score,          \* round(float(prediction), 2)
    bands,          \* (rem_life, rec_load, suitability)
    last,           \* st.session_state.history[-1] read by the dashboard
    df,             \* pd.DataFrame(st.session_state.history) of the dashboard
    pdf_bytes,      \* result of export_pdf(df)
    logs_df,        \* pd.DataFrame(st.session_state.history) of the log table
    ui,             \* elements rendered by the current (or last) run
    run_status,     \* "none", "running", "completed", "aborted"
    clock           \* wall clock read by datetime.now()

vars == <<pc, session_state, v, i, t, clicked, defined, power, input_array,
          score, bands, last, df, pdf_bytes, logs_df, ui, run_status, clock>>

\* ------------------------------------------------------- text formatting
Digit(d) == <<"0", "1", "2", "3", "4", "5", "6", "7", "8", "9">>[d + 1]

RECURSIVE IntStr(_)
\* str(n) for a natural number n
IntStr(n) == IF n < 10 THEN Digit(n) ELSE IntStr(n \div 10) \o Digit(n % 10)

\* "%02d"
Pad2(n) == IF n < 10 THEN "0" \o Digit(n) ELSE IntStr(n)

Abs(n) == IF n < 0 THEN -n ELSE n

\* str(x) of a float x that carries at most two decimals (h = 100 * x)
FloatStr(h) ==
    LET a == Abs(h)
        frac == a % 100
    IN  (IF h < 0 THEN "-" ELSE "")
        \o IntStr(a \div 100) \o "."
        \o (IF frac % 10 = 0 THEN Digit(frac \div 10) ELSE Pad2(frac))

\* datetime.now().strftime("%H:%M:%S")
StrfTime(now) ==
    Pad2((now \div 3600) % 24) \o ":" \o Pad2((now \div 60) % 60)
        \o ":" \o Pad2(now % 60)

\* datetime.now().strftime('%Y-%m-%d %H:%M'), for the first month of the epoch
StrfMinute(now) ==
    "1970-01-" \o Pad2(1 + (now \div 86400)) \o " "
        \o Pad2((now \div 3600) % 24) \o ":" \o Pad2((now \div 60) % 60)

\* round(x, 2) of x given in thousandths, result in hundredths (ties to even)
Round2(x) ==
    LET q == x \div 10
        r == x % 10
    IN  IF r < 5 THEN q
        ELSE IF r > 5 THEN q + 1
        ELSE IF q % 2 = 0 THEN q ELSE q + 1

\* ------------------------------------------------------------ classifier
Excellent == <<"2 - 3 Years", "High (Up to 500W)", "Excellent (Solar/UPS/EV)">>
Good == <<"1 - 2 Years", "Medium (Up to 150W)", "Good (LED/Fans/Small Electronics)">>
Fair == <<"6 Months - 1 Year", "Low (Below 50W)", "Fair (Emergency backup only)">>
Critical == <<"0 Months", "No Load (Recycle)", "Critical (Not safe for use)">>

\* thresholds compared with > instead of >=
get_detailed_prediction_strict(s) ==
    IF s > 8000 THEN Excellent
    ELSE IF s > 5000 THEN Good
    ELSE IF s > 3000 THEN Fair
    ELSE Critical

get_detailed_prediction(s) ==
    IF s >= 8000 THEN Excellent
    ELSE IF s >= 5000 THEN Good
    ELSE IF s >= 3000 THEN Fair
    ELSE Critical

\* --------------------------------------------------------- session state
\* the history list, read as empty while the key is still absent
History == IF "history" \in DOMAIN session_state
           THEN session_state["history"] ELSE <<>>

\* the membership guard forgotten: the list is recreated on every rerun
InitHistory_reset(ss) == [k \in {"history"} |-> <<>>]

\* if 'history' not in st.session_state: st.session_state.history = []
InitHistory(ss) ==
    IF "history" \in DOMAIN ss THEN ss ELSE [k \in {"history"} |-> <<>>]

\* Voltage and Current filled from each other's variable
PredictionEvent_swapped(now, vv, ii, tt, pw, sc, bd) ==
    [Time |-> StrfTime(now),
     Voltage |-> ii, Current |-> vv, Temp |-> tt, Power |-> pw,
     Score |-> sc, Rem_Life |-> bd[1], Rec_Load |-> bd[2], Suitability |-> bd[3]]

\* the dict appended by the predict handler
PredictionEvent(now, vv, ii, tt, pw, sc, bd) ==
    [Time |-> StrfTime(now),
     Voltage |-> vv, Current |-> ii, Temp |-> tt, Power |-> pw,
     Score |-> sc, Rem_Life |-> bd[1], Rec_Load |-> bd[2], Suitability |-> bd[3]]

\* history.insert(0, event) instead of append
HistoryAppend_front(ss, event) ==
    [ss EXCEPT !["history"] = <<event>> \o @]

\* st.session_state.history.append(event)
HistoryAppend(ss, event) ==
    [ss EXCEPT !["history"] = Append(@, event)]

\* pd.DataFrame(list of dicts): one row per dict, in list order
DataFrame(records) == [k \in 1..Len(records) |-> records[k]]

\* ------------------------------------------------------------ PDF export
\* An FPDF document is the lines finished so far and the line being filled;
\* a cell is its width, text and border flag.
FPDF == [lines |-> <<>>, cur |-> <<>>]

Ln(pdf) == [lines |-> Append(pdf.lines, pdf.cur), cur |-> <<>>]

Cell(pdf, w, txt, border, ln) ==
    LET p == [pdf EXCEPT !.cur = Append(@, [w |-> w, txt |-> txt, border |-> border])]
    IN  IF ln THEN Ln(p) ELSE p

Title(pdf, now) ==
    LET p1 == Cell(pdf, 190, "Battery Health Prediction Report", 0, TRUE)
        p2 == Cell(p1, 190, "Report Generated: " \o StrfMinute(now), 0, TRUE)
    IN  Ln(p2)

HeaderRow(pdf) ==
    LET p1 == Cell(pdf, 20, "Time", 1, FALSE)
        p2 == Cell(p1, 20, "Health %", 1, FALSE)
        p3 == Cell(p2, 40, "Est. Life", 1, FALSE)
        p4 == Cell(p3, 40, "Rec. Load", 1, FALSE)
        p5 == Cell(p4, 70, "Suitability", 1, FALSE)
    IN  Ln(p5)

\* the Est. Life and Rec. Load cells written in the other order
DataRow_swapped(pdf, row) ==
    LET p1 == Cell(pdf, 20, row.Time, 1, FALSE)
        p2 == Cell(p1, 20, FloatStr(row.Score) \o "%", 1, FALSE)
        p3 == Cell(p2, 40, row.Rec_Load, 1, FALSE)
        p4 == Cell(p3, 40, row.Rem_Life, 1, FALSE)
        p5 == Cell(p4, 70, row.Suitability, 1, FALSE)
    IN  Ln(p5)

DataRow(pdf, row) ==
    LET p1 == Cell(pdf, 20, row.Time, 1, FALSE)
        p2 == Cell(p1, 20, FloatStr(row.Score) \o "%", 1, FALSE)
        p3 == Cell(p2, 40, row.Rem_Life, 1, FALSE)
        p4 == Cell(p3, 40, row.Rec_Load, 1, FALSE)
        p5 == Cell(p4, 70, row.Suitability, 1, FALSE)
    IN  Ln(p5)

RECURSIVE DataRows(_, _, _)
\* for _, row in dataframe.iterrows(): rows k..end
DataRows(pdf, dataframe, k) ==
    IF k > Len(dataframe) THEN pdf
    ELSE DataRows(DataRow(pdf, dataframe[k]), dataframe, k + 1)

\* export_pdf(dataframe); `now` is the clock read by datetime.now()
export_pdf(dataframe, now) ==
    DataRows(HeaderRow(Title(FPDF, now)), dataframe, 1).lines

\* --------------------------------------------------------------- actions
Error == "Error"

\* an uncaught exception ends the script run; Streamlit shows the traceback
Raise ==
    /\ ui' = ui \cup {"exception"}
    /\ run_status' = "aborted"
    /\ pc' = "idle"

Init ==
    /\ pc = "idle"
    /\ session_state = <<>>
    /\ v = 520 /\ i = 20 /\ t = 300
    /\ clicked = FALSE
    /\ defined = {}
    /\ power = None /\ input_array = None /\ score = None /\ bands = None
    /\ last = None /\ df = None /\ pdf_bytes = None /\ logs_df = None
    /\ ui = {}
    /\ run_status = "none"
    /\ clock = 0

\* a widget interaction (value edit and/or button press) reruns the script
StartRun ==
    /\ pc = "idle"
    /\ \E nv \in Voltages, ni \in Currents, nt \in Temperatures :
          /\ v' = nv /\ i' = ni /\ t' = nt
    /\ \E press \in BOOLEAN :
          /\ press => Len(History) < MaxHistory
          /\ clicked' = press
    /\ defined' = {}
    /\ power' = None /\ input_array' = None /\ score' = None /\ bands' = None
    /\ last' = None /\ df' = None /\ pdf_bytes' = None /\ logs_df' = None
    /\ ui' = {}
    /\ run_status' = "running"
    /\ pc' = "import"
    /\ UNCHANGED <<session_state, clock>>

\* lines 8-11: try: from fpdf import FPDF / except ImportError: st.error
ImportFpdf ==
    /\ pc = "import"
    /\ \E ok \in BOOLEAN :
          IF ok THEN /\ defined' = defined \cup {"FPDF"}
                     /\ ui' = ui
                ELSE /\ defined' = defined
                     /\ ui' = ui \cup {"fpdf_error"}
    /\ pc' = "load"
    /\ UNCHANGED <<session_state, v, i, t, clicked, power, input_array, score,
                   bands, last, df, pdf_bytes, logs_df, run_status, clock>>

\* lines 14-18: model is bound first, scaler second; the first failure
\* skips the rest of the try block and is reported with st.error
LoadArtifacts ==
    /\ pc = "load"
    /\ \E loaded \in {{"model", "scaler"}, {"model"}, {}} :
          /\ defined' = defined \cup loaded
          /\ ui' = IF loaded = {"model", "scaler"} THEN ui
                   ELSE ui \cup {"load_error"}
    /\ pc' = "session"
    /\ UNCHANGED <<session_state, v, i, t, clicked, power, input_array, score,
                   bands, last, df, pdf_bytes, logs_df, run_status, clock>>

\* lines 25-26
InitSessionState ==
    /\ pc = "session"
    /\ session_state' = InitHistory(session_state)
    /\ pc' = "inputs"
    /\ UNCHANGED <<v, i, t, clicked, defined, power, input_array, score, bands,
                   last, df, pdf_bytes, logs_df, ui, run_status, clock>>

\* lines 30-33: v * i is in hundredths, round(.., 2) keeps it there
ReadInputs ==
    /\ pc = "inputs"
    /\ power' = Round2(v * i * 10)
    /\ pc' = "button"
    /\ UNCHANGED <<session_state, v, i, t, clicked, defined, input_array, score,
                   bands, last, df, pdf_bytes, logs_df, ui, run_status, clock>>

\* lines 46-47
Button ==
    /\ pc = "button"
    /\ IF clicked
       THEN /\ input_array' = <<v, i, t, power>>
            /\ pc' = "transform"
       ELSE /\ input_array' = input_array
            /\ pc' = "dashboard"
    /\ UNCHANGED <<session_state, v, i, t, clicked, defined, power, score, bands,
                   last, df, pdf_bytes, logs_df, ui, run_status, clock>>

\* line 48: NameError when scaler is unbound, or transform itself raises
Transform ==
    /\ pc = "transform"
    /\ \E outcome \in {"ok", Error} :
          IF "scaler" \notin defined \/ outcome = Error
          THEN Raise
          ELSE /\ pc' = "predict"
               /\ UNCHANGED <<ui, run_status>>
    /\ UNCHANGED <<session_state, v, i, t, clicked, defined, power, input_array,
                   score, bands, last, df, pdf_bytes, logs_df, clock>>

\* lines 49-58: predict, round, classify, append
Predict ==
    /\ pc = "predict"
    /\ \E outcome \in {"ok", Error}, prediction \in RawPredictions :
          IF "model" \notin defined \/ outcome = Error
          THEN /\ Raise
               /\ UNCHANGED <<session_state, score, bands>>
          ELSE /\ score' = Round2(prediction)
               /\ bands' = get_detailed_prediction(Round2(prediction))
               /\ session_state' = HistoryAppend(session_state,
                      PredictionEvent(clock, v, i, t, power, Round2(prediction),
                                      get_detailed_prediction(Round2(prediction))))
               /\ pc' = "dashboard"
               /\ UNCHANGED <<ui, run_status>>
    /\ UNCHANGED <<v, i, t, clicked, defined, power, input_array,
                   last, df, pdf_bytes, logs_df, clock>>

\* last = history.pop() instead of history[-1]
Dashboard_pop ==
    /\ pc = "dashboard"
    /\ IF History # <<>>
       THEN /\ last' = History[Len(History)]
            /\ session_state' = [session_state EXCEPT
                   !["history"] = SubSeq(@, 1, Len(@) - 1)]
            /\ df' = DataFrame(History)
            /\ ui' = ui \cup {"status", "metrics", "gauge", "scatter_3d", "bar"}
            /\ pc' = "export"
       ELSE /\ UNCHANGED <<last, df, ui, session_state>>
            /\ pc' = "logs"
    /\ UNCHANGED <<v, i, t, clicked, defined, power, input_array,
                   score, bands, pdf_bytes, logs_df, run_status, clock>>

\* lines 61-104: status, metrics, gauge, 3D scatter, bar chart
Dashboard ==
    /\ pc = "dashboard"
    /\ IF History # <<>>
       THEN /\ last' = History[Len(History)]
            /\ df' = DataFrame(History)
            /\ ui' = ui \cup {"status", "metrics", "gauge", "scatter_3d", "bar"}
            /\ pc' = "export"
       ELSE /\ UNCHANGED <<last, df, ui>>
            /\ pc' = "logs"
    /\ UNCHANGED <<session_state, v, i, t, clicked, defined, power, input_array,
                   score, bands, pdf_bytes, logs_df, run_status, clock>>

\* export_pdf called outside the try block: its exception ends the run
Export_uncaught ==
    /\ pc = "export"
    /\ \E outcome \in {"ok", Error} :
          IF "FPDF" \notin defined \/ outcome = Error
          THEN /\ pdf_bytes' = pdf_bytes
               /\ Raise
          ELSE /\ pdf_bytes' = export_pdf(df, clock)
               /\ ui' = ui \cup {"download_button"}
               /\ pc' = "logs"
               /\ run_status' = run_status
    /\ UNCHANGED <<session_state, v, i, t, clicked, defined, power, input_array,
                   score, bands, last, df, logs_df, clock>>

\* lines 136-142: any exception of export_pdf is caught and shown as a warning
Export ==
    /\ pc = "export"
    /\ \E outcome \in {"ok", Error} :
          IF "FPDF" \notin defined \/ outcome = Error
          THEN /\ pdf_bytes' = pdf_bytes
               /\ ui' = ui \cup {"export_warning"}
          ELSE /\ pdf_bytes' = export_pdf(df, clock)
               /\ ui' = ui \cup {"download_button"}
    /\ pc' = "logs"
    /\ UNCHANGED <<session_state, v, i, t, clicked, defined, power, input_array,
                   score, bands, last, df, logs_df, run_status, clock>>

\* lines 145-147, then the script ends
Logs ==
    /\ pc = "logs"
    /\ IF History # <<>>
       THEN /\ logs_df' = DataFrame(History)
            /\ ui' = ui \cup {"logs"}
       ELSE UNCHANGED <<logs_df, ui>>
    /\ run_status' = "completed"
    /\ pc' = "idle"
    /\ UNCHANGED <<session_state, v, i, t, clicked, defined, power, input_array,
                   score, bands, last, df, pdf_bytes, clock>>

\* wall-clock time passes
Tick ==
    /\ \E now \in Clocks :
          /\ now > clock
          /\ clock' = now
    /\ UNCHANGED <<pc, session_state, v, i, t, clicked, defined, power,
                   input_array, score, bands, last, df, pdf_bytes, logs_df, ui,
                   run_status>>

Next ==
    \/ StartRun
    \/ ImportFpdf
    \/ LoadArtifacts
    \/ InitSessionState
    \/ ReadInputs
    \/ Button
    \/ Transform
    \/ Predict
    \/ Dashboard
    \/ Export
    \/ Logs
    \/ Tick

Spec == Init /\ [][Next]_vars

\* ------------------------------------------- classifier on its own domain
\* Scores (hundredths) from below 0 to above 100, each classified once.
InitClassify ==
    /\ pc = "classify"
    /\ score \in (-ClassifyBelow)..ClassifyHigh
    /\ bands = <<>>
    /\ session_state = <<>>
    /\ v = 520 /\ i = 20 /\ t = 300
    /\ clicked = TRUE
    /\ defined = {"model", "scaler"}
    /\ power = 10400 /\ input_array = <<520, 20, 300, 10400>>
    /\ last = None /\ df = None /\ pdf_bytes = None /\ logs_df = None
    /\ ui = {}
    /\ run_status = "running"
    /\ clock = 0

\* line 52: rem_life, rec_load, suitability = get_detailed_prediction(score)
Classify ==
    /\ pc = "classify"
    /\ bands' = get_detailed_prediction(score)
    /\ pc' = "classified"
    /\ UNCHANGED <<session_state, v, i, t, clicked, defined, power, input_array,
                   score, last, df, pdf_bytes, logs_df, ui, run_status, clock>>

NextClassify == Classify

SpecClassify == InitClassify /\ [][NextClassify]_vars

\* ---------------------------------------------------------------- claims
\* a step of the predict handler that ran to its end
SuccessfulPrediction == pc = "predict" /\ pc' = "dashboard"

SessionIdle == History = <<>>
HasHistory == Len(History) >= 1

\* C1: every score, also below 0 and above 100, gets exactly one of the four
\* band triples: >= 80 Excellent, [50, 80) Good, [30, 50) Fair, < 30
\* Critical; the boundaries 80, 50 and 30 belong to the higher band.
C1_Bands ==
    pc = "classified" =>
        /\ bands \in {Excellent, Good, Fair, Critical}
        /\ (bands = Excellent) <=> (score >= 8000)
        /\ (bands = Good) <=> (score >= 5000 /\ score < 8000)
        /\ (bands = Fair) <=> (score >= 3000 /\ score < 5000)
        /\ (bands = Critical) <=> (score < 3000)

C1_Witness == pc = "classified" /\ score = 3000 /\ bands = Fair

\* C2: a successful prediction appends exactly one event at the end of the
\* history (length + 1, earlier entries untouched, the new last entry is the
\* event of this request), and the status view reads that last entry.
C2_AppendsOne ==
    /\ [][SuccessfulPrediction =>
            /\ Len(History') = Len(History) + 1
            /\ SubSeq(History', 1, Len(History)) = History
            /\ History'[Len(History')].Score = score'
            /\ History'[Len(History')].Suitability = bands'[3]
            /\ History'[Len(History')].Time = StrfTime(clock)
            /\ History'[Len(History')].Voltage = v]_vars
    /\ []("status" \in ui => last = History[Len(History)])

C2_Witness ==
    /\ Len(History) = 3
    /\ History[1].Score = 8500 /\ History[2].Score = 4500
    /\ History[3].Score = 1000
    /\ History[3].Suitability = "Critical (Not safe for use)"
    /\ "status" \in ui /\ last = History[3]

\* C3: only the append of a successful prediction changes the history; a
\* failed request, a rerun without a press, rendering, snapshots and the
\* export leave it alone, so the two snapshots of one run are equal.
C3_OnlyAppendMutates ==
    /\ [][History' # History => SuccessfulPrediction]_vars
    /\ [](("bar" \in ui /\ "logs" \in ui) => df = logs_df)

C3_Witness ==
    /\ pc = "idle" /\ ~clicked /\ run_status = "completed"
    /\ "export_warning" \in ui /\ "bar" \in ui /\ "logs" \in ui
    /\ Len(History) = 2 /\ df = logs_df /\ df = History

\* C4: the session starts Idle (empty history), becomes HasHistory exactly
\* on the first successful prediction, and never returns to Idle.
C4_Sticky ==
    /\ SessionIdle
    /\ [][/\ HasHistory => HasHistory'
          /\ (SessionIdle /\ HasHistory') <=> (SessionIdle /\ SuccessfulPrediction)]_vars

C4_Witness == pc = "inputs" /\ ~clicked /\ Len(History) = 2

\* C5: a prediction request whose scoring fails is surfaced as a warning and
\* the run still completes, rendering the existing history.
C5_FailureKeepsRunning ==
    (clicked /\ "exception" \in ui) =>
        /\ run_status \in {"running", "completed"}
        /\ (pc = "idle" /\ History # <<>>) => "logs" \in ui

\* C6: once loading the model or the scaler has failed, no prediction
\* request is accepted or reaches the scoring step.
C6_LoadFailureDisables ==
    "load_error" \in ui => pc \notin {"transform", "predict"}

\* C7: when the export fails (no download button after the dashboard), a
\* warning is shown, the run completes and the history log is rendered; a
\* further prediction request is still accepted, and predictions made
\* without the report capability still append.
C7_ExportOnlyDisabled ==
    /\ []((pc = "idle" /\ "bar" \in ui /\ "download_button" \notin ui) =>
            /\ "export_warning" \in ui
            /\ run_status = "completed"
            /\ "logs" \in ui /\ logs_df = History
            /\ Len(History) < MaxHistory => ENABLED (StartRun /\ clicked'))
    /\ [][(SuccessfulPrediction /\ "FPDF" \notin defined) =>
            History' = Append(History, History'[Len(History')])]_vars

C7_Witness ==
    /\ pc = "idle" /\ clicked /\ "FPDF" \notin defined
    /\ "export_warning" \in ui /\ "logs" \in ui
    /\ run_status = "completed" /\ Len(History) = 2

\* the bordered lines of a document, and the texts of a line
IsTableRow(line) ==
    line # <<>> /\ \A c \in 1..Len(line) : line[c].border = 1
TableRows(pdf) == SelectSeq(pdf, IsTableRow)
Texts(line) == [c \in 1..Len(line) |-> line[c].txt]

\* C8: the report of an n-event snapshot has one header row then n data
\* rows in snapshot order, cells Time, Health %, Est. Life, Rec. Load,
\* Suitability taken from Time, Score, Rem_Life, Rec_Load, Suitability.
C8_Rows ==
    "download_button" \in ui =>
        LET rows == TableRows(pdf_bytes) IN
        /\ Len(rows) = Len(df) + 1
        /\ Texts(rows[1]) =
              <<"Time", "Health %", "Est. Life", "Rec. Load", "Suitability">>
        /\ \A k \in 1..Len(df) :
              Texts(rows[k + 1]) =
                 <<df[k].Time, FloatStr(df[k].Score) \o "%", df[k].Rem_Life,
                   df[k].Rec_Load, df[k].Suitability>>
        /\ SubSeq(pdf_bytes, Len(pdf_bytes) - Len(df), Len(pdf_bytes)) = rows

C8_Witness ==
    /\ "download_button" \in ui /\ Len(df) = 2
    /\ Len(TableRows(pdf_bytes)) = 3
    /\ Texts(TableRows(pdf_bytes)[2])[2] = "85.0%"
    /\ Texts(TableRows(pdf_bytes)[3])[2] = "10.0%"

\* C9: the report depends on the snapshot only: generated at any other
\* time from the same snapshot it is identical.
C9_Deterministic ==
    "download_button" \in ui =>
        \A now \in Clocks : export_pdf(df, now) = pdf_bytes

\* the run has appended its event
AppendedThisRun ==
    /\ clicked
    /\ \/ pc \in {"dashboard", "export", "logs"}
       \/ pc = "idle" /\ run_status = "completed"

\* C10: every stored event carries the bands of its own Score, and its
\* Voltage, Current, Temp, Power are the feature vector of its request, in
\* the order (voltage, current, temperature, power).
C10_EventConsistent ==
    /\ \A k \in 1..Len(History) :
          <<History[k].Rem_Life, History[k].Rec_Load, History[k].Suitability>>
             = get_detailed_prediction(History[k].Score)
    /\ AppendedThisRun =>
          <<History[Len(History)].Voltage, History[Len(History)].Current,
            History[Len(History)].Temp, History[Len(History)].Power>>
             = input_array

C10_Witness ==
    /\ AppendedThisRun /\ Len(History) = 2
    /\ input_array = <<481, 20, 300, 9620>>
    /\ History[2].Voltage = 481 /\ History[2].Power = 9620
    /\ History[1].Score = 4500
    /\ History[1].Suitability = "Fair (Emergency backup only)"

====
